---- MODULE Spec2Model ----
(***************************************************************************)
(* Model of the snowflake id generator (src/snowflake/snowflake.go).       *)
(*                                                                         *)
(* Go's int64 is modelled exactly: a value is a tuple of four 16-bit limbs *)
(* (least significant first) in two's complement, and +, -, <<, >>, &, |,  *)
(* ^, / and < are computed on the limbs with Go's wrap-around semantics.   *)
(***************************************************************************)
EXTENDS Integers, Sequences, FiniteSets, TLC

-----------------------------------------------------------------------------
(* int64 arithmetic                                                        *)

\* One limb holds 16 bits.
LimbBase == 2^16

\* The sign bit of the top limb.
LimbSign == 2^15

\* x + y, wrapping modulo 2^64.
Add64(a, b) ==
    LET s1 == a[1] + b[1]
        s2 == a[2] + b[2] + (s1 \div LimbBase)
        s3 == a[3] + b[3] + (s2 \div LimbBase)
        s4 == a[4] + b[4] + (s3 \div LimbBase)
    IN  <<s1 % LimbBase, s2 % LimbBase, s3 % LimbBase, s4 % LimbBase>>

\* ^x (bitwise complement).
Not64(a) ==
    <<LimbBase - 1 - a[1], LimbBase - 1 - a[2], LimbBase - 1 - a[3], LimbBase - 1 - a[4]>>

Zero64 == <<0, 0, 0, 0>>

One64 == <<1, 0, 0, 0>>

\* The int64 value -1.
MinusOne64 == Not64(Zero64)

\* -x, wrapping.
Neg64(a) == Add64(Not64(a), One64)

\* x - y, wrapping.
Sub64(a, b) == Add64(a, Neg64(b))

\* The int64 of a small integer literal (|n| < 2^31).
I64(n) ==
    IF n >= 0
    THEN <<n % LimbBase, n \div LimbBase, 0, 0>>
    ELSE Neg64(<<(-n) % LimbBase, (-n) \div LimbBase, 0, 0>>)

\* Whether x < 0.
IsNeg64(a) == a[4] >= LimbSign

\* The integer a small int64 stands for (defined when |x| < 2^31).
ToInt(a) ==
    IF IsNeg64(a)
    THEN LET m == Neg64(a) IN -(m[1] + m[2] * LimbBase)
    ELSE a[1] + a[2] * LimbBase

\* x << k (Go: bits shifted out are lost, k >= 64 gives 0).
Shl64(a, k) ==
    IF k >= 64
    THEN Zero64
    ELSE LET q  == k \div 16
             m  == 2^(k % 16)
             t1 == a[1] * m
             t2 == a[2] * m + (t1 \div LimbBase)
             t3 == a[3] * m + (t2 \div LimbBase)
             t4 == a[4] * m + (t3 \div LimbBase)
             b  == <<t1 % LimbBase, t2 % LimbBase, t3 % LimbBase, t4 % LimbBase>>
         IN  [i \in 1..4 |-> IF i - q >= 1 THEN b[i - q] ELSE 0]

\* x >> k on a signed value (arithmetic shift: the sign bit is copied in).
Shr64(a, k) ==
    LET ext == IF IsNeg64(a) THEN LimbBase - 1 ELSE 0
    IN  IF k >= 64
        THEN <<ext, ext, ext, ext>>
        ELSE LET q  == k \div 16
                 m  == 2^(k % 16)
                 w  == 2^(16 - (k % 16))
                 e  == [i \in 1..9 |-> IF i <= 4 THEN a[i] ELSE ext]
             IN  [i \in 1..4 |->
                    ((e[i + q] \div m) + (e[i + q + 1] % m) * w) % LimbBase]

\* Bitwise and of two limbs.
RECURSIVE AndLimb(_, _)
AndLimb(x, y) ==
    IF x = 0 \/ y = 0
    THEN 0
    ELSE (x % 2) * (y % 2) + 2 * AndLimb(x \div 2, y \div 2)

\* x & y.
And64(a, b) ==
    <<AndLimb(a[1], b[1]), AndLimb(a[2], b[2]), AndLimb(a[3], b[3]), AndLimb(a[4], b[4])>>

\* x | y.
Or64(a, b) ==
    LET n == And64(a, b)
    IN  <<a[1] + b[1] - n[1], a[2] + b[2] - n[2], a[3] + b[3] - n[3], a[4] + b[4] - n[4]>>

\* x ^ y.
Xor64(a, b) ==
    LET n == And64(a, b)
    IN  <<a[1] + b[1] - 2 * n[1], a[2] + b[2] - 2 * n[2],
          a[3] + b[3] - 2 * n[3], a[4] + b[4] - 2 * n[4]>>

\* The limbs of x, most significant first, with the sign bit flipped: signed
\* order on int64 is the lexicographic order of these tuples.
OrderKey(a) == <<(a[4] + LimbSign) % LimbBase, a[3], a[2], a[1]>>

\* x < y on signed values.
Lt64(a, b) ==
    LET ka == OrderKey(a)
        kb == OrderKey(b)
    IN  \E i \in 1..4 : /\ ka[i] < kb[i]
                        /\ \A j \in 1..(i - 1) : ka[j] = kb[j]

\* x <= y on signed values.
Le64(a, b) == a = b \/ Lt64(a, b)

\* The eight bytes of x, most significant first.
Bytes64(a) ==
    <<a[4] \div 256, a[4] % 256, a[3] \div 256, a[3] % 256,
      a[2] \div 256, a[2] % 256, a[1] \div 256, a[1] % 256>>

\* The value of eight bytes, most significant first.
FromBytes64(b) ==
    <<b[7] * 256 + b[8], b[5] * 256 + b[6], b[3] * 256 + b[4], b[1] * 256 + b[2]>>

\* Long division of the bytes bs[i..8] by d with incoming remainder r; the
\* quotient bytes are appended to q.  (0 < d < 2^23.)
RECURSIVE DivBytes(_, _, _, _, _)
DivBytes(bs, d, i, r, q) ==
    IF i > 8
    THEN q
    ELSE LET t == r * 256 + bs[i]
         IN  DivBytes(bs, d, i + 1, t % d, Append(q, t \div d))

\* x / d for x >= 0 as an unsigned value.
UDiv64(a, d) == FromBytes64(DivBytes(Bytes64(a), d, 1, 0, <<>>))

\* x / d on signed x with 0 < d < 2^23 (Go: the quotient is truncated toward zero).
Div64(a, d) ==
    IF IsNeg64(a) THEN Neg64(UDiv64(Neg64(a), d)) ELSE UDiv64(a, d)

\* x * 10, wrapping.
Mul10(a) == Add64(Shl64(a, 3), Shl64(a, 1))

\* The int64 with decimal digits ds following the already read value acc.
RECURSIVE FromDecimal(_, _)
FromDecimal(ds, acc) ==
    IF ds = <<>>
    THEN acc
    ELSE FromDecimal(Tail(ds), Add64(Mul10(acc), I64(Head(ds))))

\* The int64 written in decimal as the digits ds (a literal wider than 31 bits).
Dec(ds) == FromDecimal(ds, Zero64)

\* The decimal digits of a natural number n, most significant first.
RECURSIVE Digits(_)
Digits(n) == IF n < 10 THEN <<n>> ELSE Append(Digits(n \div 10), n % 10)

\* fmt's %d of a small non-negative int64: its decimal digits.
FormatD(a) == Digits(ToInt(a))

\* The number a string of decimal digits denotes.
RECURSIVE ParseD(_)
ParseD(ds) ==
    IF ds = <<>> THEN 0 ELSE 10 * ParseD(SubSeq(ds, 1, Len(ds) - 1)) + ds[Len(ds)]

-----------------------------------------------------------------------------
(* Layout constants (snowflake.go, const block)                            *)

\* 2020-01-01 00:00:00 UTC in milliseconds since 1970.
EPOCH == Dec(<<1, 5, 7, 7, 8, 0, 8, 0, 0, 0, 0, 0, 0>>)

BIT_TIMESTAMP == 41

BIT_DATACENTER == 5

BIT_WORKER == 5

BIT_SEQUENCE == 12

\* int64(-1 ^ (-1 << BIT_TIMESTAMP))
MAX_TIMESTAMP == Xor64(MinusOne64, Shl64(MinusOne64, BIT_TIMESTAMP))

\* int64(-1 ^ (-1 << BIT_DATACENTER))
MAX_DATACENTER_ID == Xor64(MinusOne64, Shl64(MinusOne64, BIT_DATACENTER))

\* int64(-1 ^ (-1 << BIT_WORKER))
MAX_WORKER_ID == Xor64(MinusOne64, Shl64(MinusOne64, BIT_WORKER))

\* int64(-1 ^ (-1 << BIT_SEQUENCE))
MAX_SEQUENCE_ID == Xor64(MinusOne64, Shl64(MinusOne64, BIT_SEQUENCE))

\* int64(3): the largest backward clock step that is waited out.
MAX_BACKWARD_MS == I64(3)

SHIFT_TIMESTAMP == BIT_SEQUENCE + BIT_WORKER + BIT_DATACENTER

SHIFT_DATACENTER == BIT_SEQUENCE + BIT_WORKER

SHIFT_WORKER == BIT_SEQUENCE

\* The divisor of GetNow: nanoseconds per millisecond.
NanosPerMilli == 1000000

-----------------------------------------------------------------------------
(* Bounds of the model                                                     *)

\* Concurrent callers of the one shared generator.
NumCallers == 2

\* NextID calls each caller makes.
MaxCalls == 2

\* Clock ticks per millisecond (the clock moves in steps of 1/TicksPerMilli ms).
TicksPerMilli == 1

\* The clock reads at most this many milliseconds more than its first reading.
MaxAheadMs == 8

\* Milliseconds before the epoch at which the earliest construction happens
\* (a wall clock set before 2020-01-01).
MaxBehindMs == 4

\* The largest single forward step of the clock, in milliseconds.
MaxForwardMs == 3

Callers == 1..NumCallers

\* s.Mutex locked through the promoted Lock or TryLock, by no caller of NextID.
ClientHeld == NumCallers + 1

\* s.Mutex after the fatal error of unlocking it unlocked: the process is gone.
Fatal == NumCallers + 2

\* Nanoseconds per clock tick.
TickNanos == NanosPerMilli \div TicksPerMilli

\* First readings of time.Since(epoch), in milliseconds: construction before
\* the epoch, exactly at the epoch, on 2026-10-30, and two milliseconds before
\* the timestamp field is full.
ClockBasesMs ==
    { Neg64(I64(MaxBehindMs)),
      Zero64,
      Dec(<<2, 1, 5, 4, 8, 1, 6, 0, 0, 0, 0, 0>>),
      Sub64(MAX_TIMESTAMP, I64(2)) }

\* Arguments New is called with (datacenterId, machineId).
NewArgs ==
    { <<0, 0>>, <<31, 31>>,
      <<-1, 0>>, <<0, -1>>, <<32, 0>>, <<0, 32>>, <<32, 32>> }

\* The (datacenterId, machineId) of the generators already in service.
WarmArgs == { <<21, 10>> }

\* The sequence values a generator already in service starts from.
WarmSequences == { Sub64(MAX_SEQUENCE_ID, One64), MAX_SEQUENCE_ID }

\* NextID calls made on each of two generators that run side by side.
MaxPeerCalls == 2

\* The (datacenterId, machineId) the two generators are made with.
PeerNodes == { <<0, 1>>, <<1, 0>>, <<31, 31>> }

\* The reading of time.Since(epoch) on 2026-10-30, in milliseconds.
PeerWarmMs == Dec(<<2, 1, 5, 4, 8, 1, 6, 0, 0, 0, 0, 0>>)

\* How either generator starts: the first reading of its clock in milliseconds,
\* and whether it is already in service.
PeerStarts == { <<Neg64(One64), FALSE>>, <<Zero64, FALSE>>, <<PeerWarmMs, TRUE>> }

\* The clock of either generator reads at most this many milliseconds more
\* than its first reading.
MaxPeerAheadMs == 2

\* NextID calls made in all on the generator whose mutex methods clients call
\* too.
MaxOpenCalls == 3

\* The clock of that generator reads at most this many milliseconds more than
\* its first reading.
MaxOpenAheadMs == 2

\* How that generator starts: the first reading of its clock in milliseconds,
\* whether it is in service, and its sequence.
ExposedStarts ==
    { <<Neg64(I64(MaxBehindMs)), FALSE, Zero64>>,
      <<Neg64(One64), FALSE, Zero64>>,
      <<PeerWarmMs, TRUE, Sub64(MAX_SEQUENCE_ID, One64)>>,
      <<PeerWarmMs, TRUE, MAX_SEQUENCE_ID>> }

-----------------------------------------------------------------------------
(* The generator                                                            *)

VARIABLES
    sf,        \* the *SnowFlake New returned: timestamp, datacenterId, workerId, sequence
    newErr,    \* the error New returned
    since,     \* what time.Since(s.epoch).Nanoseconds() returns now (the clock)
    skew,      \* ticks the clock is ahead of its first reading
    until,     \* each sleeping caller's earliest wake-up, a reading of the clock in ns
    mutex,     \* the caller holding s.Mutex, 0 when unlocked
    pc,        \* each caller's position in NextID
    now,       \* each caller's local variable now
    calls,     \* NextID calls each caller has started
    issued,    \* the ids NextID returned, in order of return
    call,      \* what the latest call that took the lock observed and did
    made,      \* the arguments of the latest call of New
    peers,     \* two further generators, each with its caller, clock and returned ids
    probe,     \* an int64 handed to GetDeviceID
    device,    \* what GetDeviceID returned for probe, <<>> before the call
    exposed    \* a further generator, its callers and the clients of its mutex methods

\* The shared generator, its callers and its clock.
shared == <<sf, newErr, since, skew, until, mutex, pc, now, calls, issued, call, made>>

\* The generators and the decoder input that stand apart from the shared generator.
apart == <<peers, probe, device, exposed>>

vars == <<sf, newErr, since, skew, until, mutex, pc, now, calls, issued, call, made,
          peers, probe, device, exposed>>

\* A nil *SnowFlake.
NilSnowFlake ==
    [live |-> FALSE, timestamp |-> Zero64, datacenterId |-> Zero64,
     workerId |-> Zero64, sequence |-> Zero64]

\* No further generator: nothing made, nobody calling.
NoExposed ==
    [sf       |-> NilSnowFlake,
     stores   |-> <<>>,
     released |-> {},
     seen     |-> [c \in Callers |-> {}],
     mutex    |-> 0,
     pc       |-> [c \in Callers |-> "idle"],
     now      |-> [c \in Callers |-> Zero64],
     loaded   |-> [c \in Callers |-> Zero64],
     until    |-> [c \in Callers |-> Zero64],
     calls    |-> [c \in Callers |-> 0],
     issued   |-> <<>>,
     since    |-> Zero64,
     skew     |-> 0]

\* A nil error.
NoError == [nil |-> TRUE, format |-> "", arg |-> <<>>]

\* fmt.Errorf(format, v) with one %d verb.
Errorf(format, v) == [nil |-> FALSE, format |-> format, arg |-> FormatD(v)]

\* The datacenter bound compared with >= in place of >.
DatacenterRejectedAtMax(datacenterId) ==
    Lt64(datacenterId, Zero64) \/ Le64(MAX_DATACENTER_ID, datacenterId)

\* New, line 49: datacenterId < 0 || datacenterId > MAX_DATACENTER_ID.
DatacenterRejected(datacenterId) ==
    Lt64(datacenterId, Zero64) \/ Lt64(MAX_DATACENTER_ID, datacenterId)

\* New, line 52: machineId < 0 || machineId > MAX_WORKER_ID.
MachineRejected(machineId) ==
    Lt64(machineId, Zero64) \/ Lt64(MAX_WORKER_ID, machineId)

\* The bound New prints for datacenterId: MAX_DATACENTER_ID-1.
DatacenterBoundShown == Sub64(MAX_DATACENTER_ID, One64)

\* The bound New prints for machineId: MAX_WORKER_ID-1.
MachineBoundShown == Sub64(MAX_WORKER_ID, One64)

\* New(datacenterId, machineId): the pair (generator, error) it returns.
New(datacenterId, machineId) ==
    IF DatacenterRejected(datacenterId)
    THEN [sf  |-> NilSnowFlake,
          err |-> Errorf("datacenterId must be between 0 and %d", DatacenterBoundShown)]
    ELSE IF MachineRejected(machineId)
    THEN [sf  |-> NilSnowFlake,
          err |-> Errorf("machineId must be between 0 and %d", MachineBoundShown)]
    ELSE [sf  |-> [live |-> TRUE, timestamp |-> Zero64, datacenterId |-> datacenterId,
                   workerId |-> machineId, sequence |-> Zero64],
          err |-> NoError]

\* GetNow: time.Since(s.epoch).Nanoseconds() / 1000000.
GetNow(nanos) == Div64(nanos, NanosPerMilli)

\* A NextID without the rollback check.
ClockMovedBackUnchecked(n, s) == FALSE

\* NextID, lines 77 and 86: now < s.timestamp.
ClockMovedBack(n, s) == Lt64(n, s.timestamp)

\* The tolerance compared with < in place of <=.
ToleratedStrict(offset) == Lt64(offset, MAX_BACKWARD_MS)

\* NextID, line 80: offset <= MAX_BACKWARD_MS.
Tolerated(offset) == Le64(offset, MAX_BACKWARD_MS)

\* The sleep computed with >> in place of <<.
SleepMillisHalved(offset) == Shr64(offset, 1)

\* NextID, line 82: the milliseconds slept, offset<<1.
SleepMillis(offset) == Shl64(offset, 1)

\* NextID, line 101: s.timestamp == now.
SameMillisecond(n, s) == s.timestamp = n

\* The sequence masked but not incremented.
NextSequenceStuck(s) == And64(s.sequence, MAX_SEQUENCE_ID)

\* NextID, line 103: (s.sequence + 1) & MAX_SEQUENCE_ID.
NextSequence(s) == And64(Add64(s.sequence, One64), MAX_SEQUENCE_ID)

\* The spin-wait left as soon as the clock is not behind (< in place of <=).
SpinAgainStrict(n, s) == Lt64(n, s.timestamp)

\* The loop condition of a spin-wait that never lets go.
SpinAgainStale(n, s) == Le64(s.timestamp, s.timestamp)

\* NextID, line 105: the loop condition now <= s.timestamp.
SpinAgain(n, s) == Le64(n, s.timestamp)

\* The id packed with the datacenter at the worker's shift.
PackIDNodesOverlapping(n, s) ==
    Or64(Or64(Or64(Shl64(Sub64(n, EPOCH), SHIFT_TIMESTAMP),
                   Shl64(s.datacenterId, SHIFT_WORKER)),
              Shl64(s.workerId, SHIFT_WORKER)),
         s.sequence)

\* NextID, lines 120-124: the id packed from now and the generator's fields.
PackID(n, s) ==
    Or64(Or64(Or64(Shl64(Sub64(n, EPOCH), SHIFT_TIMESTAMP),
                   Shl64(s.datacenterId, SHIFT_DATACENTER)),
              Shl64(s.workerId, SHIFT_WORKER)),
         s.sequence)

\* GetDeviceID reading the datacenter at the worker's shift.
GetDeviceIDMisplaced(sid) ==
    <<And64(Shr64(sid, SHIFT_WORKER), MAX_DATACENTER_ID),
      And64(Shr64(sid, SHIFT_WORKER), MAX_WORKER_ID)>>

\* GetDeviceID(sid): the pair (datacenterId, machineId).
GetDeviceID(sid) ==
    <<And64(Shr64(sid, SHIFT_DATACENTER), MAX_DATACENTER_ID),
      And64(Shr64(sid, SHIFT_WORKER), MAX_WORKER_ID)>>

-----------------------------------------------------------------------------
(* Operations                                                               *)

\* The record of a call that has not sampled the clock yet.
NoCall ==
    [caller |-> 0, result |-> "none",
     entryTs |-> Zero64, entrySeq |-> Zero64, entryNow |-> Zero64,
     sampled |-> FALSE, offset |-> Zero64,
     slept |-> FALSE, sleepMs |-> Zero64, sleepAt |-> Zero64, woke |-> FALSE, wakeAt |-> Zero64,
     wakeNow |-> Zero64, spun |-> FALSE,
     panicArg |-> Zero64, afterPanic |-> FALSE]

\* ms milliseconds in nanoseconds.
MsToNanos(ms) == Mul10(Mul10(Mul10(Mul10(Mul10(Mul10(ms))))))

\* What one issued id is remembered by.
Issue(c, n, s) ==
    [caller |-> c, timestamp |-> n, sequence |-> s.sequence, id |-> PackID(n, s)]

\* s.Unlock() on a mutex in state m: sync.Mutex has no owner, so a locked mutex
\* is unlocked whoever locked it, and unlocking an unlocked one is the fatal
\* error "sync: unlock of unlocked mutex", which ends the process.
Unlocked(m) == IF m = 0 THEN Fatal ELSE 0

\* A caller invokes New(a[1], a[2]); a failed construction may be retried.
CallNew(a) ==
    /\ ~sf.live
    /\ LET r == New(I64(a[1]), I64(a[2]))
       IN  /\ sf' = r.sf
           /\ newErr' = r.err
    /\ made' = [called |-> TRUE, datacenterId |-> I64(a[1]), machineId |-> I64(a[2])]
    /\ UNCHANGED <<since, skew, until, mutex, pc, now, calls, issued, call, apart>>

\* A NextID that does not wait for the mutex.
LockUnguarded(c) ==
    /\ sf.live
    /\ pc[c] = "idle"
    /\ calls[c] < MaxCalls
    /\ mutex' = c
    /\ pc' = [pc EXCEPT ![c] = "locked"]
    /\ calls' = [calls EXCEPT ![c] = @ + 1]
    /\ call' = [NoCall EXCEPT !.caller = c, !.result = "running",
                              !.entryTs = sf.timestamp, !.entrySeq = sf.sequence,
                              !.afterPanic = call.afterPanic \/ call.result = "panic"]
    /\ UNCHANGED <<sf, newErr, since, skew, until, now, issued, made, apart>>

\* NextID, lines 72-73: s.Lock(), with the unlock deferred.  The call record
\* remembers whether an earlier call on this generator panicked (and the
\* panic was recovered, since this caller goes on).
Lock(c) ==
    /\ sf.live
    /\ pc[c] = "idle"
    /\ calls[c] < MaxCalls
    /\ mutex = 0
    /\ mutex' = c
    /\ pc' = [pc EXCEPT ![c] = "locked"]
    /\ calls' = [calls EXCEPT ![c] = @ + 1]
    /\ call' = [NoCall EXCEPT !.caller = c, !.result = "running",
                              !.entryTs = sf.timestamp, !.entrySeq = sf.sequence,
                              !.afterPanic = call.afterPanic \/ call.result = "panic"]
    /\ UNCHANGED <<sf, newErr, since, skew, until, now, issued, made, apart>>

\* A panic with the mutex unlocked by hand at the return only, not deferred.
PanicHoldingLock(c, n, cr) ==
    /\ pc' = [pc EXCEPT ![c] = "idle"]
    /\ now' = [now EXCEPT ![c] = Zero64]
    /\ call' = [cr EXCEPT !.result = "panic", !.panicArg = Sub64(sf.timestamp, n)]
    /\ UNCHANGED <<sf, issued, mutex>>

\* NextID, line 96: panic; the deferred s.Unlock() runs and no id is returned.
Panic(c, n, cr) ==
    /\ mutex' = Unlocked(mutex)
    /\ pc' = [pc EXCEPT ![c] = "idle"]
    /\ now' = [now EXCEPT ![c] = Zero64]
    /\ call' = [cr EXCEPT !.result = IF mutex = 0 THEN "fatal" ELSE "panic",
                          !.panicArg = Sub64(sf.timestamp, n)]
    /\ UNCHANGED <<sf, issued>>

\* NextID, lines 115-124: store now, pack the id, return it; the deferred
\* s.Unlock() runs before the caller has the id.
Return(c, n, q, cr) ==
    LET s == [sf EXCEPT !.timestamp = n, !.sequence = q]
    IN  /\ sf' = s
        /\ issued' = IF mutex = 0 THEN issued ELSE Append(issued, Issue(c, n, s))
        /\ mutex' = Unlocked(mutex)
        /\ pc' = [pc EXCEPT ![c] = "idle"]
        /\ now' = [now EXCEPT ![c] = Zero64]
        /\ call' = [cr EXCEPT !.result = IF mutex = 0 THEN "fatal" ELSE "id"]

\* NextID, lines 100-112 with now = n, then either the spin-wait or the return.
Sequence(c, n, cr) ==
    IF SameMillisecond(n, sf)
    THEN LET q == NextSequence(sf)
         IN  IF q = Zero64 /\ SpinAgain(n, sf)
             THEN /\ sf' = [sf EXCEPT !.sequence = q]
                  /\ pc' = [pc EXCEPT ![c] = "spinning"]
                  /\ now' = [now EXCEPT ![c] = n]
                  /\ call' = [cr EXCEPT !.spun = TRUE]
                  /\ UNCHANGED <<mutex, issued>>
             ELSE Return(c, n, q, cr)
    ELSE Return(c, n, Zero64, cr)

\* NextID, lines 74-98 up to the sleep: sample the clock and check for a
\* rollback.  until[c] is the clock reading at which time.Sleep returns at
\* the earliest.
Sample(c) ==
    /\ pc[c] = "locked"
    /\ mutex # Fatal
    /\ LET n  == GetNow(since)
           cr == [call EXCEPT !.sampled = TRUE, !.entryNow = n]
       IN  IF ClockMovedBack(n, sf)
           THEN LET offset == Sub64(sf.timestamp, n)
                IN  IF Tolerated(offset)
                    THEN /\ pc' = [pc EXCEPT ![c] = "sleeping"]
                         /\ now' = [now EXCEPT ![c] = n]
                         /\ until' = [until EXCEPT ![c] =
                                         Add64(since, MsToNanos(SleepMillis(offset)))]
                         /\ call' = [cr EXCEPT !.offset = offset, !.slept = TRUE,
                                               !.sleepMs = SleepMillis(offset),
                                               !.sleepAt = since]
                         /\ UNCHANGED <<sf, mutex, issued>>
                    ELSE /\ Panic(c, n, [cr EXCEPT !.offset = offset])
                         /\ UNCHANGED until
           ELSE /\ Sequence(c, n, cr)
                /\ UNCHANGED until
    /\ UNCHANGED <<newErr, since, skew, calls, made, apart>>

\* NextID, lines 82-97: time.Sleep returns, not before the clock has advanced
\* by the duration asked for, and the clock is sampled again.
Wake(c) ==
    /\ pc[c] = "sleeping"
    /\ mutex # Fatal
    /\ Le64(until[c], since)
    /\ LET n  == GetNow(since)
           cr == [call EXCEPT !.woke = TRUE, !.wakeAt = since, !.wakeNow = n]
       IN  IF ClockMovedBack(n, sf)
           THEN Panic(c, n, cr)
           ELSE Sequence(c, n, cr)
    /\ until' = [until EXCEPT ![c] = Zero64]
    /\ UNCHANGED <<newErr, since, skew, calls, made, apart>>

\* NextID, lines 105-107: one turn of the spin-wait, then the return once it ends.
Spin(c) ==
    /\ pc[c] = "spinning"
    /\ mutex # Fatal
    /\ LET n == GetNow(since)
       IN  IF SpinAgain(n, sf)
           THEN /\ now' = [now EXCEPT ![c] = n]
                /\ UNCHANGED <<sf, mutex, pc, issued, call>>
           ELSE Return(c, n, sf.sequence, call)
    /\ UNCHANGED <<newErr, since, skew, until, calls, made, apart>>

\* The clock advances by one tick.  time.Since(s.epoch) subtracts monotonic
\* readings (s.epoch carries the one of time.Now() in New), so it never
\* decreases.
Tick ==
    /\ sf.live
    /\ skew + 1 <= MaxAheadMs * TicksPerMilli
    /\ since' = Add64(since, I64(TickNanos))
    /\ skew' = skew + 1
    /\ UNCHANGED <<sf, newErr, until, mutex, pc, now, calls, issued, call, made, apart>>

\* The clock advances by k milliseconds.
Forward(k) ==
    /\ sf.live
    /\ skew + k * TicksPerMilli <= MaxAheadMs * TicksPerMilli
    /\ since' = Add64(since, I64(k * TicksPerMilli * TickNanos))
    /\ skew' = skew + k * TicksPerMilli
    /\ UNCHANGED <<sf, newErr, until, mutex, pc, now, calls, issued, call, made, apart>>

\* No generator yet: New has not been called.  Whatever the wall clock reads
\* when New runs, before the epoch included, fixes the first reading.
InitFresh ==
    /\ sf = NilSnowFlake
    /\ made = [called |-> FALSE, datacenterId |-> Zero64, machineId |-> Zero64]
    /\ issued = <<>>

\* A generator in service: it has just issued an id in the current millisecond,
\* and its sequence is one of WarmSequences.  s.timestamp is a clock reading
\* that was not below 0.
InitWarm ==
    /\ ~IsNeg64(since)
    /\ \E a \in WarmArgs, q \in WarmSequences :
          /\ New(I64(a[1]), I64(a[2])).err.nil
          /\ sf = [New(I64(a[1]), I64(a[2])).sf EXCEPT
                      !.timestamp = GetNow(since), !.sequence = q]
          /\ made = [called |-> FALSE, datacenterId |-> I64(a[1]), machineId |-> I64(a[2])]
    /\ issued = <<Issue(0, sf.timestamp, sf)>>

Init ==
    /\ since \in { MsToNanos(ms) : ms \in ClockBasesMs }
    /\ newErr = NoError
    /\ skew = 0
    /\ until = [c \in Callers |-> Zero64]
    /\ mutex = 0
    /\ pc = [c \in Callers |-> "idle"]
    /\ now = [c \in Callers |-> Zero64]
    /\ calls = [c \in Callers |-> 0]
    /\ call = NoCall
    /\ (InitFresh \/ InitWarm)
    /\ peers = <<>>
    /\ probe = Zero64
    /\ device = <<>>
    /\ exposed = NoExposed

\* The generator used through New and NextID only.
Next ==
    \/ \E a \in NewArgs : CallNew(a)
    \/ \E c \in Callers : Lock(c)
    \/ \E c \in Callers : Sample(c)
    \/ \E c \in Callers : Wake(c)
    \/ \E c \in Callers : Spin(c)
    \/ Tick
    \/ \E k \in 1..MaxForwardMs : Forward(k)

Spec == Init /\ [][Next]_vars

\* A caller inside NextID keeps running and the clock keeps ticking.  For the
\* caller this is weak fairness of Sample(c), of Wake(c) and of the turn of
\* Spin(c) that leaves the loop, each written by its enabling condition: the
\* step is enabled exactly while the condition holds and taking it ends it.
Fairness ==
    /\ \A c \in Callers : []<>(pc[c] # "locked")
    /\ \A c \in Callers : []<>~(pc[c] = "sleeping" /\ Le64(until[c], since))
    /\ \A c \in Callers : []<>~(pc[c] = "spinning" /\ Lt64(sf.timestamp, GetNow(since)))
    /\ WF_vars(Tick)

SpecLive == Init /\ [][Next]_vars /\ Fairness

-----------------------------------------------------------------------------
(* GetDeviceID on its own                                                   *)

\* The shared generator left unmade, its clock and callers at rest.
NoGenerator ==
    /\ since = Zero64
    /\ newErr = NoError
    /\ skew = 0
    /\ until = [c \in Callers |-> Zero64]
    /\ mutex = 0
    /\ pc = [c \in Callers |-> "idle"]
    /\ now = [c \in Callers |-> Zero64]
    /\ calls = [c \in Callers |-> 0]
    /\ call = NoCall
    /\ InitFresh

\* The int64 values handed to GetDeviceID: every combination of the sampled
\* limbs, so all values of bits 12..21 with zeros, ones and mixed bits around
\* them, positive and negative.
LowLimbSamples == {0, 1, 4095, 4096, 21845, 43690, 61440, 65535}
MidLimbSamples == {0, 1, 2, 31, 32, 42, 62, 63, 21845, 43690, 65535}
HighLimbSamples == {0, 32767, 32768, 65535}
DecodeInputs ==
    { <<a, b, c, d>> : a \in LowLimbSamples, b \in MidLimbSamples,
                       c \in {0, 65535}, d \in HighLimbSamples }

InitDecode ==
    /\ NoGenerator
    /\ peers = <<>>
    /\ probe \in DecodeInputs
    /\ device = <<>>
    /\ exposed = NoExposed

\* A caller invokes GetDeviceID(probe).
Decode ==
    /\ device = <<>>
    /\ device' = GetDeviceID(probe)
    /\ UNCHANGED <<shared, peers, probe, exposed>>

NextDecode == Decode

SpecDecode == InitDecode /\ [][NextDecode]_vars

-----------------------------------------------------------------------------
(* Two generators side by side                                              *)

\* A generator of its own process with its one caller and its clock: as
\* New(a[1], a[2]) returns it when the clock reads ms milliseconds, or in
\* service with an exhausted sequence in the millisecond ms.  waited tells
\* whether a call on it has been in the rollback sleep or in the spin-wait.
PeerStart(a, ms, warm) ==
    LET g == New(I64(a[1]), I64(a[2])).sf
        s == [g EXCEPT !.timestamp = ms, !.sequence = MAX_SEQUENCE_ID]
    IN  [sf     |-> IF warm THEN s ELSE g,
         issued |-> IF warm THEN <<Issue(0, s.timestamp, s)>> ELSE <<>>,
         calls  |-> 0,
         pc     |-> "idle",
         now    |-> Zero64,
         since  |-> MsToNanos(ms),
         skew   |-> 0,
         until  |-> Zero64,
         waited |-> FALSE]

InitPair ==
    /\ NoGenerator
    /\ probe = Zero64
    /\ device = <<>>
    /\ exposed = NoExposed
    /\ \E a, b \in PeerNodes, x, y \in PeerStarts :
          peers = <<PeerStart(a, x[1], x[2]), PeerStart(b, y[1], y[2])>>

\* NextID on generator p, line 96: panic, no id is returned.
PeerPanic(p) == [p EXCEPT !.pc = "idle", !.now = Zero64]

\* NextID on generator p, lines 115-124: store now, pack the id, return it.
PeerReturn(p, i, n, q) ==
    LET s == [p.sf EXCEPT !.timestamp = n, !.sequence = q]
    IN  [p EXCEPT !.sf = s, !.issued = Append(@, Issue(i, n, s)),
                  !.pc = "idle", !.now = Zero64]

\* NextID on generator p, lines 100-112 with now = n, then either the
\* spin-wait or the return.
PeerSequence(p, i, n) ==
    IF SameMillisecond(n, p.sf)
    THEN LET q == NextSequence(p.sf)
         IN  IF q = Zero64 /\ SpinAgain(n, p.sf)
             THEN [p EXCEPT !.sf = [p.sf EXCEPT !.sequence = q],
                            !.pc = "spinning", !.now = n, !.waited = TRUE]
             ELSE PeerReturn(p, i, n, q)
    ELSE PeerReturn(p, i, n, Zero64)

\* The caller of generator i starts NextID, lines 72-73.
PeerLock(i) ==
    /\ peers[i].pc = "idle"
    /\ peers[i].calls < MaxPeerCalls
    /\ peers' = [peers EXCEPT ![i] = [@ EXCEPT !.pc = "locked", !.calls = @ + 1]]
    /\ UNCHANGED <<shared, probe, device, exposed>>

\* NextID on generator i, lines 74-98 up to the sleep.
PeerSample(i) ==
    /\ peers[i].pc = "locked"
    /\ LET p == peers[i]
           n == GetNow(p.since)
           offset == Sub64(p.sf.timestamp, n)
       IN  peers' = [peers EXCEPT ![i] =
              IF ClockMovedBack(n, p.sf)
              THEN IF Tolerated(offset)
                   THEN [p EXCEPT !.pc = "sleeping", !.now = n, !.waited = TRUE,
                                  !.until = Add64(p.since, MsToNanos(SleepMillis(offset)))]
                   ELSE PeerPanic(p)
              ELSE PeerSequence(p, i, n)]
    /\ UNCHANGED <<shared, probe, device, exposed>>

\* NextID on generator i, lines 82-97: time.Sleep returns and the clock is
\* sampled again.
PeerWake(i) ==
    /\ peers[i].pc = "sleeping"
    /\ Le64(peers[i].until, peers[i].since)
    /\ LET p == [peers[i] EXCEPT !.until = Zero64]
           n == GetNow(p.since)
       IN  peers' = [peers EXCEPT ![i] =
              IF ClockMovedBack(n, p.sf) THEN PeerPanic(p) ELSE PeerSequence(p, i, n)]
    /\ UNCHANGED <<shared, probe, device, exposed>>

\* NextID on generator i, lines 105-107: one turn of the spin-wait, then the
\* return once it ends.
PeerSpin(i) ==
    /\ peers[i].pc = "spinning"
    /\ LET p == peers[i]
           n == GetNow(p.since)
       IN  peers' = [peers EXCEPT ![i] =
              IF SpinAgain(n, p.sf)
              THEN [p EXCEPT !.now = n]
              ELSE PeerReturn(p, i, n, p.sf.sequence)]
    /\ UNCHANGED <<shared, probe, device, exposed>>

\* The clock of generator i advances by one millisecond.
PeerTick(i) ==
    /\ peers[i].skew < MaxPeerAheadMs
    /\ peers' = [peers EXCEPT ![i] =
                    [@ EXCEPT !.since = Add64(@, MsToNanos(One64)), !.skew = @ + 1]]
    /\ UNCHANGED <<shared, probe, device, exposed>>

NextPair ==
    \/ \E i \in 1..2 : PeerLock(i)
    \/ \E i \in 1..2 : PeerSample(i)
    \/ \E i \in 1..2 : PeerWake(i)
    \/ \E i \in 1..2 : PeerSpin(i)
    \/ \E i \in 1..2 : PeerTick(i)

SpecPair == InitPair /\ [][NextPair]_vars

-----------------------------------------------------------------------------
(* The mutex methods SnowFlake promotes                                     *)

\* SnowFlake embeds sync.Mutex (line 40), so Lock, TryLock and Unlock are
\* methods of *SnowFlake and any client can call them.  No code of the
\* repository does; the generator below is the one whose clients do.  Once a
\* client has unlocked the mutex under a running NextID, a second caller passes
\* s.Lock() and the two run lines 74-124 with nothing between them: a data race
\* on s.timestamp and s.sequence.  NextID is therefore run one access at a
\* time, each caller with its own position and local variables, and a load
\* returns what the Go memory model lets a racing load of a machine word
\* return: the value of any store made so far that no store ordered before the
\* load has overwritten.  The order is program order within a caller, together
\* with every s.Unlock() being ordered before each later return of s.Lock().

\* The store that initialises field f with the value v (New, or an earlier call).
FirstStore(f, v) == [field |-> f, value |-> v, before |-> {}]

\* A generator used through every method of *SnowFlake: made by New(a[1], a[2])
\* when the clock reads ms milliseconds, or in service in the millisecond ms
\* with sequence q.  stores lists the stores to s.timestamp and s.sequence in
\* the order they were made, each with the stores ordered before it; seen[c]
\* are the stores ordered before caller c's next access and released those
\* ordered before the latest s.Unlock().  now, loaded and until are each
\* caller's local variables: now, the s.sequence it loaded last, and the end of
\* its sleep.
ExposedStart(a, ms, warm, q) ==
    LET g == New(I64(a[1]), I64(a[2])).sf
        s == [g EXCEPT !.timestamp = ms, !.sequence = q]
        f == IF warm THEN s ELSE g
    IN  [sf       |-> f,
         stores   |-> <<FirstStore("timestamp", f.timestamp),
                        FirstStore("sequence", f.sequence)>>,
         released |-> {1, 2},
         seen     |-> [c \in Callers |-> {}],
         mutex    |-> 0,
         pc       |-> [c \in Callers |-> "idle"],
         now      |-> [c \in Callers |-> Zero64],
         loaded   |-> [c \in Callers |-> Zero64],
         until    |-> [c \in Callers |-> Zero64],
         calls    |-> [c \in Callers |-> 0],
         issued   |-> IF warm THEN <<Issue(0, s.timestamp, s)>> ELSE <<>>,
         since    |-> MsToNanos(ms),
         skew     |-> 0]

InitOpen ==
    /\ NoGenerator
    /\ peers = <<>>
    /\ probe = Zero64
    /\ device = <<>>
    /\ \E a \in WarmArgs, x \in ExposedStarts :
          exposed = ExposedStart(a, x[1], x[2], x[3])

\* Whether caller c is at position at of NextID in a process still alive.
At(c, at) == exposed.pc[c] = at /\ exposed.mutex # Fatal

\* The stores to field f a load by caller c may return: those that no store to
\* f ordered before the load has overwritten.  With the mutex respected this
\* is the latest store alone.
Readable(c, f) ==
    { e \in DOMAIN exposed.stores :
        /\ exposed.stores[e].field = f
        /\ \A h \in exposed.seen[c] :
              exposed.stores[h].field = f => e \notin exposed.stores[h].before }

\* The values a load of field f by caller c may return.
Loads(c, f) == { exposed.stores[e].value : e \in Readable(c, f) }

\* The generator as caller c reads it when its load of s.timestamp returns t.
ReadTimestamp(t) == [exposed.sf EXCEPT !.timestamp = t]

\* NextID calls the callers 1..k have started on the exposed generator.
RECURSIVE OpenCalls(_)
OpenCalls(k) == IF k = 0 THEN 0 ELSE exposed.calls[k] + OpenCalls(k - 1)

\* NextID, lines 72-73: s.Lock(), with the unlock deferred.
OpenLock(c) ==
    /\ At(c, "idle")
    /\ OpenCalls(NumCallers) < MaxOpenCalls
    /\ exposed.mutex = 0
    /\ exposed' =
          [exposed EXCEPT !.mutex = c, !.pc[c] = "74", !.calls[c] = @ + 1,
                          !.seen[c] = @ \cup exposed.released]
    /\ UNCHANGED <<shared, peers, probe, device>>

\* NextID, line 74: now := s.GetNow().
OpenSample(c) ==
    /\ At(c, "74")
    /\ exposed' =
          [exposed EXCEPT !.now[c] = GetNow(exposed.since), !.pc[c] = "77"]
    /\ UNCHANGED <<shared, peers, probe, device>>

\* NextID, line 77: if now < s.timestamp.
OpenCheck(c) ==
    /\ At(c, "77")
    /\ \E t \in Loads(c, "timestamp") :
          exposed' =
             [exposed EXCEPT !.pc[c] =
                 IF ClockMovedBack(exposed.now[c], ReadTimestamp(t))
                 THEN "79" ELSE "101"]
    /\ UNCHANGED <<shared, peers, probe, device>>

\* NextID, lines 79-82: offset := s.timestamp - now, then the sleep or the
\* way to the panic.
OpenOffset(c) ==
    /\ At(c, "79")
    /\ \E t \in Loads(c, "timestamp") :
          LET offset == Sub64(t, exposed.now[c])
          IN  exposed' =
                 IF Tolerated(offset)
                 THEN [exposed EXCEPT !.pc[c] = "82",
                          !.until[c] = Add64(exposed.since, MsToNanos(SleepMillis(offset)))]
                 ELSE [exposed EXCEPT !.pc[c] = "96"]
    /\ UNCHANGED <<shared, peers, probe, device>>

\* NextID, lines 82-84: time.Sleep returns, not before its time, and
\* now = s.GetNow().
OpenWake(c) ==
    /\ At(c, "82")
    /\ Le64(exposed.until[c], exposed.since)
    /\ exposed' =
          [exposed EXCEPT !.now[c] = GetNow(exposed.since), !.pc[c] = "86"]
    /\ UNCHANGED <<shared, peers, probe, device>>

\* NextID, line 86: if now < s.timestamp, after the sleep.
OpenRecheck(c) ==
    /\ At(c, "86")
    /\ \E t \in Loads(c, "timestamp") :
          exposed' =
             [exposed EXCEPT !.pc[c] =
                 IF ClockMovedBack(exposed.now[c], ReadTimestamp(t))
                 THEN "96" ELSE "101"]
    /\ UNCHANGED <<shared, peers, probe, device>>

\* NextID, line 96: panic (its message loads s.timestamp once more); the
\* deferred s.Unlock() runs and no id is returned.  On an unlocked mutex the
\* process ends instead.
OpenPanic(c) ==
    /\ At(c, "96")
    /\ exposed' =
          [exposed EXCEPT !.mutex = Unlocked(@),
                          !.released = @ \cup exposed.seen[c],
                          !.now[c] = Zero64,
                          !.until[c] = Zero64,
                          !.pc[c] = "idle"]
    /\ UNCHANGED <<shared, peers, probe, device>>

\* NextID, line 101: if s.timestamp == now.
OpenSame(c) ==
    /\ At(c, "101")
    /\ \E t \in Loads(c, "timestamp") :
          exposed' =
             [exposed EXCEPT !.pc[c] =
                 IF SameMillisecond(exposed.now[c], ReadTimestamp(t))
                 THEN "103" ELSE "111"]
    /\ UNCHANGED <<shared, peers, probe, device>>

\* NextID, line 103, right-hand side: the load of s.sequence.
OpenLoadSequence(c) ==
    /\ At(c, "103")
    /\ \E q \in Loads(c, "sequence") :
          exposed' = [exposed EXCEPT !.loaded[c] = q, !.pc[c] = "103s"]
    /\ UNCHANGED <<shared, peers, probe, device>>

\* NextID, line 103, assignment: the store of (loaded + 1) & MAX_SEQUENCE_ID.
OpenStoreSequence(c) ==
    /\ At(c, "103s")
    /\ LET q == NextSequence([exposed.sf EXCEPT !.sequence = exposed.loaded[c]])
       IN  exposed' =
              [exposed EXCEPT
                  !.sf.sequence = q,
                  !.stores = Append(@, [field |-> "sequence", value |-> q,
                                        before |-> exposed.seen[c]]),
                  !.seen[c] = @ \cup {Len(exposed.stores) + 1},
                  !.loaded[c] = Zero64,
                  !.pc[c] = "104"]
    /\ UNCHANGED <<shared, peers, probe, device>>

\* NextID, line 104: if s.sequence == 0.
OpenWrapped(c) ==
    /\ At(c, "104")
    /\ \E q \in Loads(c, "sequence") :
          exposed' = [exposed EXCEPT !.pc[c] = IF q = Zero64 THEN "105" ELSE "115"]
    /\ UNCHANGED <<shared, peers, probe, device>>

\* NextID, line 105: the loop test now <= s.timestamp.
OpenSpinTest(c) ==
    /\ At(c, "105")
    /\ \E t \in Loads(c, "timestamp") :
          exposed' =
             [exposed EXCEPT !.pc[c] =
                 IF SpinAgain(exposed.now[c], ReadTimestamp(t))
                 THEN "106" ELSE "115"]
    /\ UNCHANGED <<shared, peers, probe, device>>

\* NextID, line 106: now = s.GetNow().
OpenSpinSample(c) ==
    /\ At(c, "106")
    /\ exposed' =
          [exposed EXCEPT !.now[c] = GetNow(exposed.since), !.pc[c] = "105"]
    /\ UNCHANGED <<shared, peers, probe, device>>

\* NextID, line 111: s.sequence = 0.
OpenReset(c) ==
    /\ At(c, "111")
    /\ exposed' =
          [exposed EXCEPT
              !.sf.sequence = Zero64,
              !.stores = Append(@, [field |-> "sequence", value |-> Zero64,
                                    before |-> exposed.seen[c]]),
              !.seen[c] = @ \cup {Len(exposed.stores) + 1},
              !.pc[c] = "115"]
    /\ UNCHANGED <<shared, peers, probe, device>>

\* NextID, line 115: s.timestamp = now.
OpenStoreTimestamp(c) ==
    /\ At(c, "115")
    /\ exposed' =
          [exposed EXCEPT
              !.sf.timestamp = exposed.now[c],
              !.stores = Append(@, [field |-> "timestamp", value |-> exposed.now[c],
                                    before |-> exposed.seen[c]]),
              !.seen[c] = @ \cup {Len(exposed.stores) + 1},
              !.pc[c] = "120"]
    /\ UNCHANGED <<shared, peers, probe, device>>

\* NextID, lines 120-124: the id is packed from now and the s.sequence loaded
\* at line 123.
OpenPack(c) ==
    /\ At(c, "120")
    /\ \E q \in Loads(c, "sequence") :
          exposed' = [exposed EXCEPT !.loaded[c] = q, !.pc[c] = "125"]
    /\ UNCHANGED <<shared, peers, probe, device>>

\* NextID, line 125: the deferred s.Unlock() runs, then the caller has the id;
\* on an unlocked mutex the process ends instead.
OpenReturn(c) ==
    /\ At(c, "125")
    /\ LET s == [exposed.sf EXCEPT !.sequence = exposed.loaded[c]]
       IN  exposed' =
              [exposed EXCEPT
                  !.issued = IF exposed.mutex = 0 THEN @
                             ELSE Append(@, Issue(c, exposed.now[c], s)),
                  !.mutex = Unlocked(@),
                  !.released = @ \cup exposed.seen[c],
                  !.now[c] = Zero64,
                  !.loaded[c] = Zero64,
                  !.until[c] = Zero64,
                  !.pc[c] = "idle"]
    /\ UNCHANGED <<shared, peers, probe, device>>

\* The clock of the exposed generator advances by one millisecond.
OpenTick ==
    /\ exposed.skew < MaxOpenAheadMs
    /\ exposed' = [exposed EXCEPT !.since = Add64(@, MsToNanos(One64)), !.skew = @ + 1]
    /\ UNCHANGED <<shared, peers, probe, device>>

\* s.Lock(), or an s.TryLock() that returns true, called on the generator from
\* outside NextID.  On a locked mutex Lock waits and TryLock returns false,
\* which changes nothing.
ClientLock ==
    /\ exposed.mutex = 0
    /\ exposed' = [exposed EXCEPT !.mutex = ClientHeld]
    /\ UNCHANGED <<shared, peers, probe, device>>

\* s.Unlock() called from outside NextID, whoever holds the mutex: a client
\* has made no store, so the unlock orders none before later calls.
ClientUnlock ==
    /\ exposed.mutex # Fatal
    /\ exposed' = [exposed EXCEPT !.mutex = Unlocked(@)]
    /\ UNCHANGED <<shared, peers, probe, device>>

\* The generator used through NextID and through the promoted mutex methods.
NextOpen ==
    \/ \E c \in Callers : OpenLock(c)
    \/ \E c \in Callers : OpenSample(c)
    \/ \E c \in Callers : OpenCheck(c)
    \/ \E c \in Callers : OpenOffset(c)
    \/ \E c \in Callers : OpenWake(c)
    \/ \E c \in Callers : OpenRecheck(c)
    \/ \E c \in Callers : OpenPanic(c)
    \/ \E c \in Callers : OpenSame(c)
    \/ \E c \in Callers : OpenLoadSequence(c)
    \/ \E c \in Callers : OpenStoreSequence(c)
    \/ \E c \in Callers : OpenWrapped(c)
    \/ \E c \in Callers : OpenSpinTest(c)
    \/ \E c \in Callers : OpenSpinSample(c)
    \/ \E c \in Callers : OpenReset(c)
    \/ \E c \in Callers : OpenStoreTimestamp(c)
    \/ \E c \in Callers : OpenPack(c)
    \/ \E c \in Callers : OpenReturn(c)
    \/ OpenTick
    \/ ClientLock
    \/ ClientUnlock

SpecOpen == InitOpen /\ [][NextOpen]_vars

-----------------------------------------------------------------------------
(* Properties                                                               *)

\* The id returned last.
LastIssued == issued[Len(issued)]

\* Whether the latest call has ended, with an id or with a panic.
CallEnded == call.result \in {"id", "panic"}

\* Whether the latest call found the clock behind s.timestamp on entry.
EntryRollback == call.sampled /\ Lt64(call.entryNow, call.entryTs)

\* How many milliseconds the clock was behind on entry (small in every run).
EntryOffset == ToInt(Sub64(call.entryTs, call.entryNow))

\* C1: of any two ids one generator returned, the one returned later is
\* strictly greater, whatever the clock did in between.
C1_IdsStrictlyIncrease ==
    \A i, j \in 1..Len(issued) :
        i < j => Lt64(issued[i].id, issued[j].id)

\* C1 happens: the sequence of a millisecond ran out, the next call waited for
\* the following millisecond, and a further id was issued after that one.
C1_Witness ==
    /\ Len(issued) >= 4
    /\ issued[Len(issued) - 2].sequence = MAX_SEQUENCE_ID
    /\ Lt64(issued[Len(issued) - 2].timestamp, issued[Len(issued) - 1].timestamp)
    /\ call.result = "id"

\* C2: the ids returned to all concurrent callers are pairwise distinct, and
\* so are their (timestamp, sequence) pairs.
C2_IdsPairwiseDistinct ==
    \A i, j \in 1..Len(issued) :
        i # j => /\ issued[i].id # issued[j].id
                 /\ <<issued[i].timestamp, issued[i].sequence>>
                      # <<issued[j].timestamp, issued[j].sequence>>

\* C2 happens: every caller has made all its calls, the callers' ids
\* interleave, and two callers got ids of the same millisecond.
C2_Witness ==
    /\ \A c \in Callers :
          Cardinality({i \in 1..Len(issued) : issued[i].caller = c}) = MaxCalls
    /\ \E i \in 1..(Len(issued) - 2) :
          /\ issued[i].caller # issued[i + 1].caller
          /\ issued[i + 1].caller # issued[i + 2].caller
          /\ issued[i].caller # 0
          /\ issued[i].timestamp = issued[i + 1].timestamp

\* C3: every id returned to a caller for a clock reading that fits 41 bits is
\* in [0, 2^63): its sign bit is 0.
C3_IdsNonNegative ==
    \A i \in 1..Len(issued) :
        /\ issued[i].caller \in Callers
        /\ Le64(Zero64, issued[i].timestamp)
        /\ Le64(issued[i].timestamp, MAX_TIMESTAMP)
        => ~IsNeg64(issued[i].id)

\* The layout C4 states: (now << 22) | (datacenterId << 17) | (workerId << 12) | sequence.
StatedLayout(n, dc, wk, q) ==
    Or64(Or64(Or64(Shl64(n, 22), Shl64(dc, 17)), Shl64(wk, 12)), q)

\* C4: each id returned to a caller is the stated layout of the elapsed
\* milliseconds its call stored into s.timestamp, the node's ids and the sequence.
C4_IdPacksElapsedMillis ==
    \A i \in 1..Len(issued) :
        issued[i].caller \in Callers =>
        issued[i].id = StatedLayout(issued[i].timestamp, sf.datacenterId,
                                    sf.workerId, issued[i].sequence)

\* C5: GetDeviceID of every id a generator returned is the (datacenterId,
\* machineId) New was given.
C5_DeviceRoundTrip ==
    \A i \in 1..Len(issued) :
        GetDeviceID(issued[i].id) = <<made.datacenterId, made.machineId>>

\* C5 happens: ids of generators with unequal and with all-ones node fields were
\* decoded, a negative id among them.
C5_Witness ==
    /\ Len(issued) >= 2
    /\ IsNeg64(LastIssued.id)
    /\ GetDeviceID(LastIssued.id) \in {<<I64(21), I64(10)>>, <<I64(31), I64(31)>>}
    /\ LastIssued.sequence # Zero64

\* C6: a call panics exactly when the clock was behind on entry and either by
\* more than 3 ms (then without sleeping) or, after the sleep, still behind.
C6_PanicExactlyOnRollback ==
    CallEnded =>
        /\ (call.result = "panic") <=>
              /\ EntryRollback
              /\ \/ EntryOffset > 3
                 \/ /\ EntryOffset <= 3
                    /\ call.woke
                    /\ Lt64(call.wakeNow, call.entryTs)
        /\ (EntryRollback /\ EntryOffset > 3) => ~call.slept
        /\ (EntryRollback /\ EntryOffset <= 3) => call.slept
        /\ ~EntryRollback => ~call.slept

\* C6 happens: a call found the clock 4 ms behind s.timestamp and panicked
\* without sleeping.
C6_Witness ==
    /\ call.result = "panic"
    /\ EntryRollback
    /\ EntryOffset = 4
    /\ ~call.slept

\* Whether the clock advanced by at least the requested sleep while the
\* latest call slept.
ClockAdvancedDuringSleep ==
    /\ call.woke
    /\ Le64(Add64(call.sleepAt, MsToNanos(call.sleepMs)), call.wakeAt)

\* C7: a call that finds the clock 1 to 3 ms behind sleeps 2*offset ms and, the
\* clock having advanced that much meanwhile, does not panic: it returns an id
\* greater than every id issued before.
C7_ToleratedRollbackRecovers ==
    /\ call.slept => (EntryOffset \in 1..3 /\ ToInt(call.sleepMs) = 2 * EntryOffset)
    /\ ClockAdvancedDuringSleep =>
          /\ call.result = "id"
          /\ LastIssued.caller = call.caller
          /\ \A i \in 1..(Len(issued) - 1) : Lt64(issued[i].id, LastIssued.id)

\* C7 happens: the clock was 2 ms behind s.timestamp, advanced during the
\* sleep, and the call returned an id.
C7_Witness ==
    /\ ClockAdvancedDuringSleep
    /\ EntryOffset = 2
    /\ call.result = "id"
    /\ LastIssued.timestamp = call.wakeNow

\* C8: the id issued after the one with sequence 4095 of a millisecond t has
\* a timestamp greater than t and sequence 0, and a call in the spin-wait
\* returns nothing while the clock reads at most t.
C8_ExhaustionWaitsForNextMillisecond ==
    /\ \A i \in 1..(Len(issued) - 1) :
          issued[i].sequence = MAX_SEQUENCE_ID =>
              /\ Lt64(issued[i].timestamp, issued[i + 1].timestamp)
              /\ issued[i + 1].sequence = Zero64
    /\ (call.spun /\ call.result = "id") =>
          /\ call.entrySeq = MAX_SEQUENCE_ID
          /\ Lt64(call.entryTs, LastIssued.timestamp)

\* C8 happens: the 4096th id of a millisecond was issued, the next call waited
\* in the spin loop and returned.
C8_Witness ==
    /\ call.spun
    /\ call.result = "id"
    /\ Len(issued) >= 2
    /\ issued[Len(issued) - 1].sequence = MAX_SEQUENCE_ID
    /\ issued[Len(issued) - 1].timestamp = call.entryNow

\* Whether no NextID call has started on the generator New returned.
JustMade == made.called /\ \A c \in Callers : calls[c] = 0

\* C9: New fails, returning nil and an error, exactly when an argument is
\* outside [0, 31]; otherwise it returns no error and a generator holding the
\* arguments, with timestamp 0 and sequence 0.
C9_NewValidatesArguments ==
    JustMade =>
        LET dc == ToInt(made.datacenterId)
            wk == ToInt(made.machineId)
        IN  IF dc \notin 0..31 \/ wk \notin 0..31
            THEN sf = NilSnowFlake /\ ~newErr.nil
            ELSE /\ newErr = NoError
                 /\ sf = [live |-> TRUE, timestamp |-> Zero64,
                          datacenterId |-> made.datacenterId,
                          workerId |-> made.machineId, sequence |-> Zero64]

\* C9 happens: New(31, 31) was called and returned a generator.
C9_Witness ==
    /\ JustMade
    /\ made.datacenterId = I64(31)
    /\ made.machineId = I64(31)
    /\ sf.live

\* C10: the upper bound an error of New states is the largest value New
\* accepts for the field it names.
C10_ErrorStatesAcceptedRange ==
    ~newErr.nil =>
        LET shown == ParseD(newErr.arg)
        IN  IF newErr.format = "datacenterId must be between 0 and %d"
            THEN /\ New(I64(shown), Zero64).err.nil
                 /\ ~New(I64(shown + 1), Zero64).err.nil
            ELSE /\ New(Zero64, I64(shown)).err.nil
                 /\ ~New(Zero64, I64(shown + 1)).err.nil

\* Whether caller c is inside NextID's critical section.
Inside(c) == pc[c] # "idle"

\* Whether caller c is in the rollback sleep or in the spin-wait.
Waiting(c) == pc[c] \in {"sleeping", "spinning"}

\* C12: NextID calls on one generator are totally serialized.  At any moment at
\* most one caller is inside NextID past s.Lock(), and it holds the mutex; and
\* while a caller is in the rollback sleep or in the spin-wait, every step that
\* touches s.timestamp or s.sequence, starts a call, or returns an id is that
\* caller's own.
C12_CallsSerialized ==
    /\ [](\A c, d \in Callers : Inside(c) /\ Inside(d) => c = d /\ mutex = c)
    /\ [][\A c \in Callers :
            Waiting(c) /\ (sf' # sf \/ pc' # pc \/ issued' # issued \/ call' # call)
            => /\ mutex = c
               /\ call'.caller = c
               /\ \A d \in Callers \ {c} : pc'[d] = pc[d]]_vars

\* C12 happens: one caller is in the spin-wait or asleep while another, with
\* calls left to make, is kept out.
C12_Witness ==
    \E c, d \in Callers :
        /\ c # d
        /\ Waiting(c)
        /\ mutex = c
        /\ pc[d] = "idle"
        /\ calls[d] < MaxCalls
        /\ calls[d] > 0

\* Whether caller c of the generator with the exposed mutex is inside NextID
\* past s.Lock().
OpenInside(c) == exposed.pc[c] # "idle"

\* What C12 does not cover, a client of the promoted mutex methods.  Each of
\* the three is reached under SpecOpen.  OpenRaced: a client's s.Unlock() let a
\* second caller in, and two callers are inside NextID at once.
OpenRaced ==
    \E c, d \in Callers : c # d /\ OpenInside(c) /\ OpenInside(d)

\* OpenTwice: two callers were returned the same id.
OpenTwice ==
    \E i, j \in 1..Len(exposed.issued) :
        /\ i < j
        /\ exposed.issued[i].caller \in Callers
        /\ exposed.issued[j].caller \in Callers
        /\ exposed.issued[i].id = exposed.issued[j].id

\* OpenFatal: a deferred s.Unlock() of NextID found the mutex unlocked.
OpenFatal ==
    /\ exposed.mutex = Fatal
    /\ \E c \in Callers : exposed.pc[c] \in {"96", "125"}

\* C13: s.timestamp never decreases, in any step of any call and whatever the
\* clock does.
C13_TimestampNeverDecreases ==
    [][sf.live /\ sf'.live => Le64(sf.timestamp, sf'.timestamp)]_vars

\* C13 happens: after a call that panicked on a rollback, a call found the
\* clock behind s.timestamp, slept, and stored a timestamp above the one it
\* found.
C13_Witness ==
    /\ sf.live
    /\ call.afterPanic
    /\ call.woke
    /\ call.result = "id"
    /\ Lt64(call.entryTs, sf.timestamp)

\* C14: the ids a generator returns for one value of s.timestamp carry the
\* sequences 0, 1, 2, ... in the order of their return: an id whose timestamp
\* is that of the id returned just before it carries that id's sequence plus
\* one, at most MAX_SEQUENCE_ID; every other id, the first one of a fresh
\* generator included, carries sequence 0.
C14_SequenceCountsFromZero ==
    \A i \in 1..Len(issued) :
        issued[i].caller \in Callers =>
        IF i > 1 /\ issued[i - 1].timestamp = issued[i].timestamp
        THEN /\ issued[i].sequence = Add64(issued[i - 1].sequence, One64)
             /\ Le64(issued[i].sequence, MAX_SEQUENCE_ID)
        ELSE issued[i].sequence = Zero64

\* The range of the 41-bit timestamp field.
FitsTimestampField(t) == Le64(Zero64, t) /\ Le64(t, MAX_TIMESTAMP)

\* C16: the value NextID packs as the timestamp of an id it returns fits the
\* 41-bit field, and it is the timestamp component read back from the id.
C16_TimestampFieldInRange ==
    \A i \in 1..Len(issued) :
        issued[i].caller \in Callers =>
        /\ FitsTimestampField(Sub64(issued[i].timestamp, EPOCH))
        /\ FitsTimestampField(Shr64(issued[i].id, SHIFT_TIMESTAMP))

\* C18: a call that panics leaves s.timestamp and s.sequence as it found them
\* and the mutex unlocked; a call made after a recovered panic that returns an
\* id returns one greater than every id returned before.
C18_PanicLeavesGeneratorUsable ==
    /\ call.result = "panic" =>
          /\ sf.timestamp = call.entryTs
          /\ sf.sequence = call.entrySeq
          /\ mutex = 0
          /\ pc[call.caller] = "idle"
    /\ call.afterPanic /\ call.result = "id" =>
          \A i \in 1..(Len(issued) - 1) : Lt64(issued[i].id, LastIssued.id)

\* C18 happens: after a panic on a rollback, later calls returned ids.
C18_Witness ==
    /\ call.afterPanic
    /\ call.result = "id"
    /\ Len(issued) >= 2

\* Bits 21..17 of an int64 given by its limbs.
Bits21to17(x) == (x[2] \div 2) % 32

\* Bits 16..12 of an int64 given by its limbs.
Bits16to12(x) == (x[1] \div 4096) + 16 * (x[2] % 2)

\* C17: for every int64, GetDeviceID returns a datacenterId and a machineId in
\* 0..31 that are bits 21..17 and bits 16..12 of its argument.
C17_GetDeviceIDTotal ==
    device # <<>> =>
        /\ Len(device) = 2
        /\ Le64(Zero64, device[1]) /\ Le64(device[1], I64(31))
        /\ Le64(Zero64, device[2]) /\ Le64(device[2], I64(31))
        /\ device[1] = I64(Bits21to17(probe))
        /\ device[2] = I64(Bits16to12(probe))

\* C17 happens: a negative int64 with unequal node fields and ones above and
\* below them was decoded.
C17_Witness ==
    /\ IsNeg64(probe)
    /\ probe[1] = 21845
    /\ device = <<I64(21), I64(5)>>

\* The (datacenterId, workerId) of generator i.
PeerNode(i) == <<peers[i].sf.datacenterId, peers[i].sf.workerId>>

\* C11: two generators made with different (datacenterId, workerId) never
\* return equal ids, whatever their clocks read and however many ids each
\* has returned.
C11_DistinctNodesDistinctIds ==
    peers # <<>> /\ PeerNode(1) # PeerNode(2) =>
        \A i \in 1..Len(peers[1].issued), j \in 1..Len(peers[2].issued) :
            peers[1].issued[i].id # peers[2].issued[j].id

\* C11 happens: two generators with different nodes each returned an id to a
\* caller for the same millisecond with the same sequence.
C11_Witness ==
    /\ peers # <<>>
    /\ PeerNode(1) # PeerNode(2)
    /\ \E i \in 1..Len(peers[1].issued), j \in 1..Len(peers[2].issued) :
          /\ peers[1].issued[i].caller = 1
          /\ peers[2].issued[j].caller = 2
          /\ peers[1].issued[i].timestamp = peers[2].issued[j].timestamp
          /\ peers[1].issued[i].sequence = peers[2].issued[j].sequence

\* C15: with a clock that keeps advancing, a call that holds the mutex comes to
\* its end, by an id or by a panic, and unlocks the mutex, which lets the next
\* caller in; and a turn of the spin-wait taken when the clock reads more than
\* s.timestamp ends the call with an id.
C15_CallsComplete ==
    /\ \A c \in Callers :
          (mutex = c) ~> (mutex = 0 /\ pc[c] = "idle" /\ CallEnded)
    /\ [][\A c \in Callers :
            /\ pc[c] = "spinning"
            /\ Lt64(sf.timestamp, GetNow(since))
            /\ (now' # now \/ pc' # pc \/ call' # call)
            => /\ pc'[c] = "idle"
               /\ mutex' = 0
               /\ call'.result = "id"]_vars

\* C15 happens: a caller was returned the last id of a millisecond, the call
\* after it went through the spin-wait and returned its id, and every caller
\* has made all its calls and left.
C15_Witness ==
    /\ \E i \in 1..(Len(issued) - 1) :
          /\ issued[i].caller \in Callers
          /\ issued[i].sequence = MAX_SEQUENCE_ID
          /\ Lt64(issued[i].timestamp, issued[i + 1].timestamp)
    /\ call.result = "id"
    /\ mutex = 0
    /\ \A c \in Callers : calls[c] = MaxCalls /\ pc[c] = "idle"

====
